---- MODULE Spec2Model ----
(***************************************************************************)
(* Session state engine of the reflex UI runtime: dirty tracking, the      *)
(* build / reconcile loop of Session._refresh_sync, state bindings, and    *)
(* the updateWidgetStates delta protocol of Session._refresh.              *)
(*                                                                         *)
(* Widgets live in a heap (address = Python object identity).  A widget    *)
(* field holds either a plain value, a StateBinding, or - between the      *)
(* constructor call and the binding injection of the build loop - the      *)
(* StateProperty object that was passed to the constructor.                *)
(***************************************************************************)
EXTENDS Integers, Sequences, FiniteSets, TLC

VARIABLES heap, lists, binds, wdata, dirty, byId, pc, visited, initialized,
          client, sent, err, nassign, last, removed, matchedNew, sincePass,
          run, srv

vars == <<heap, lists, binds, wdata, dirty, byId, pc, visited, initialized,
          client, sent, err, nassign, last, removed, matchedNew, sincePass,
          run, srv>>

\* ---------------------------------------------------------------- bounds
\* Number of field assignments made by the application or the client.
MaxAssign == 2

\* ------------------------------------------------------------ field values
\* A plain value stored in the instance dict.
Plain(x) == [b |-> 0, v |-> x]
\* The StateProperty object `Cls.<name>` handed to a constructor.
Prop(n) == [b |-> -1, v |-> n]
\* A StateBinding stored in the instance dict (index into binds).
Bound(i) == [b |-> i, v |-> 0]

\* Names of the bindable state properties.
TITLE == 1
TEXT == 2

NoKey == ""
Keys == <<"x", "y", "dup">>

\* -------------------------------------------------------------- classes
HtmlClasses == {"Row", "Rectangle", "Text", "Dropdown", "TextInput"}
AppClasses == {"AppSwap", "AppKey", "AppRectangle", "AppBind", "AppNest", "AppDup"}
CompositeClasses == AppClasses \cup {"Sub", "AppInput", "AppChain"}

\* The composite classes whose build function passes `Cls.title` on.
BindingClasses == {"AppBind", "Sub", "AppChain"}

IsHtml(c) == c \in HtmlClasses

\* The state properties of a class (Widget._initialize_state_properties):
\* every annotated attribute except the internal ones and the margin
\* shorthands.
StateProps(c) ==
    {"key", "margin_left"} \cup
    CASE c = "Row" -> {"children"}
      [] c = "Rectangle" -> {"child"}
      [] c = "Text" -> {"text"}
      [] c = "TextInput" -> {"text"}
      [] c = "Dropdown" -> {"sel"}
      [] OTHER -> {"v", "title"}

\* --------------------------------------------------------------- templates
\* What a constructor call inside a build function produces: a sequence of
\* nodes, node 1 the returned widget, child references as indices.
TNode(c, k, ex) ==
    [cls |-> c, key |-> k, explicit |-> ex \cup (IF k = NoKey THEN {} ELSE {"key"}),
     text |-> Plain(0), title |-> Plain(0), v |-> 0, sel |-> 0, margin |-> 0,
     kids |-> <<>>, child |-> 0]

TText(t, k) == [TNode("Text", k, {"text"}) EXCEPT !.text = Plain(t)]
TTextBound(k) == [TNode("Text", k, {"text"}) EXCEPT !.text = Prop(TITLE)]
TTextMargin(t, m) == [TNode("Text", NoKey, {"text", "margin"}) EXCEPT !.text = Plain(t), !.margin = m]
TRow(ks, k) == [TNode("Row", k, IF ks = <<>> THEN {} ELSE {"children"}) EXCEPT !.kids = ks]
TRectangle(c, k) == [TNode("Rectangle", k, IF c = 0 THEN {} ELSE {"child"}) EXCEPT !.child = c]
TDropdown == TNode("Dropdown", NoKey, {})
TTextInput(t) == [TNode("TextInput", NoKey, {"text"}) EXCEPT !.text = Plain(t)]
TSub(x) == [TNode("Sub", NoKey, {"v"}) EXCEPT !.v = x]
TApp(c) == TNode(c, NoKey, {})

\* The build functions of the composite classes: a finite tree that depends
\* only on the building widget's own field `v`.
Build(c, x) ==
    CASE c = "AppSwap" ->
           IF x = 0 THEN <<TRow(<<2, 3>>, NoKey), TText(1, "x"), TText(2, NoKey)>>
           ELSE IF x = 1 THEN <<TRow(<<2, 3>>, NoKey), TText(2, NoKey), TText(1, "x")>>
           ELSE <<TRow(<<2>>, NoKey), TText(1, "x")>>
      [] c = "AppKey" ->
           IF x = 0 THEN <<TRow(<<2, 3, 4>>, NoKey), TText(1, "x"), TText(2, NoKey), TText(2, "y")>>
           ELSE IF x = 1 THEN <<TRow(<<2, 3, 4>>, NoKey), TText(1, "x"), TText(2, "y"), TText(2, NoKey)>>
           ELSE <<TRow(<<2, 3>>, NoKey), TText(2, "y"), TText(1, "x")>>
      [] c = "AppRectangle" ->
           IF x = 0 THEN <<TRow(<<2>>, NoKey), TRectangle(3, NoKey), TText(1, "x")>>
           ELSE IF x = 1 THEN <<TRectangle(2, NoKey), TRectangle(3, NoKey), TText(1, "x")>>
           ELSE <<TRow(<<2>>, NoKey), TRectangle(0, "x")>>
      [] c = "AppBind" ->
           IF x = 0 THEN <<TText(1, NoKey)>>
           ELSE IF x = 1 THEN <<TTextBound(NoKey)>>
           ELSE <<TTextMargin(1, x)>>
      [] c = "AppNest" ->
           IF x = 0 THEN <<TRow(<<2, 3>>, NoKey), TSub(0), TDropdown>>
           ELSE IF x = 1 THEN <<TRow(<<2>>, NoKey), TSub(1)>>
           ELSE <<TRow(<<2>>, NoKey), TText(1, NoKey)>>
      [] c = "AppDup" ->
           IF x = 0 THEN <<TRow(<<2, 3>>, NoKey), TText(1, "dup"), TText(2, "dup")>>
           ELSE IF x = 1 THEN <<TRow(<<2, 3>>, NoKey), TText(1, "x"), TRectangle(0, "y")>>
           ELSE <<TRow(<<2, 3>>, NoKey), TText(1, "y"), TRectangle(0, "x")>>
      [] c = "AppInput" ->
           IF x = 0 THEN <<TTextInput(1)>>
           ELSE <<TRow(<<2, 3>>, NoKey), TTextInput(1), TText(x, NoKey)>>
      [] c = "AppChain" ->
           LET sub == TNode("Sub", NoKey, {"v", "title"})
           IN IF x = 0 THEN <<[sub EXCEPT !.v = 0, !.title = Prop(TITLE)]>>
              ELSE IF x = 1 THEN <<[sub EXCEPT !.v = 0, !.title = Plain(1)]>>
              ELSE <<[sub EXCEPT !.v = 1, !.title = Prop(TITLE)]>>
      [] OTHER ->
           IF x = 0 THEN <<TRow(<<2>>, NoKey), TTextBound(NoKey)>>
           ELSE <<TTextBound(NoKey)>>

\* The values the application assigns to `v`.
Variants == 0..2
\* The values assigned to text-like fields.
Texts == {1, 2}

\* Widget._post_init: margin_left = elvis(margin_left, margin_x, margin, 0)
PostInitMargin(m) == IF m # 0 THEN m ELSE 0

\* Run the constructors of a template: the nodes get the addresses
\* base+1 .. base+Len(t); every node owns the list object of the same index.
NewNode(t, i, base) ==
    [cls |-> t[i].cls, key |-> t[i].key, explicit |-> t[i].explicit,
     text |-> t[i].text, title |-> t[i].title, v |-> t[i].v, sel |-> t[i].sel,
     margin |-> t[i].margin, margin_left |-> PostInitMargin(t[i].margin),
     children |-> base + i,
     child |-> IF t[i].child = 0 THEN 0 ELSE base + t[i].child,
     builder |-> 0, gen |-> -1, sess |-> FALSE, freed |-> FALSE]

NewNodes(t, base) == [i \in 1..Len(t) |-> NewNode(t, i, base)]
NewLists(t, base) == [i \in 1..Len(t) |-> [j \in 1..Len(t[i].kids) |-> base + t[i].kids[j]]]

NoData == [built |-> FALSE, build_result |-> 0, build_generation |-> 0,
           contained_widget_ids |-> {}]

\* ------------------------------------------------------------- traversal
\* Widget._iter_direct_children: the widgets held by the annotated
\* attributes (a widget reference, or the items of a list).
Kids(h, l, a) ==
    IF h[a].cls = "Row" THEN l[h[a].children]
    ELSE IF h[a].cls = "Rectangle" /\ h[a].child # 0 THEN <<h[a].child>>
    ELSE <<>>

RECURSIVE Desc(_, _, _), DescAll(_, _, _)
\* Widget._iter_direct_and_indirect_children(include_self=True), in order.
Desc(h, l, a) == <<a>> \o DescAll(h, l, Kids(h, l, a))
DescAll(h, l, s) ==
    IF s = <<>> THEN <<>> ELSE Desc(h, l, Head(s)) \o DescAll(h, l, Tail(s))

Range(s) == {s[i] : i \in 1..Len(s)}

RECURSIVE FundSet(_, _, _)
\* The widgets reached from a through the children of fundamental widgets
\* only (the walk of _register_dirty_widget with the recursive flag, and of
\* the builder injection).
FundSet(h, l, a) ==
    {a} \cup (IF IsHtml(h[a].cls)
              THEN UNION {FundSet(h, l, c) : c \in Range(Kids(h, l, a))}
              ELSE {})

\* Session._register_dirty_widget
RegisterDirty(h, l, d, a, rec) ==
    IF rec THEN d \cup FundSet(h, l, a) ELSE d \cup {a}

\* A weak reference: None once the referent is collected.
Deref(h, a) == IF a = 0 THEN 0 ELSE IF h[a].freed THEN 0 ELSE a

\* ---------------------------------------------------------- state bindings
AssertFailed == -1

RECURSIVE GetValue(_, _)
\* StateBinding.get_value
GetValue(b, i) ==
    IF b[i].is_root THEN b[i].value
    ELSE IF b[i].parent = 0 THEN AssertFailed
    ELSE GetValue(b, b[i].parent)

Raw(node, n) == IF n = TITLE THEN node.title ELSE node.text
SetRaw(node, n, x) ==
    IF n = TITLE THEN [node EXCEPT !.title = x] ELSE [node EXCEPT !.text = x]

\* StateProperty.__get__
Attr(h, b, a, n) ==
    IF Raw(h[a], n).b > 0 THEN GetValue(b, Raw(h[a], n).b) ELSE Raw(h[a], n).v

RECURSIVE RootOf(_, _)
RootOf(b, i) == IF b[i].parent = 0 THEN i ELSE RootOf(b, b[i].parent)

RECURSIVE BindTree(_, _)
BindTree(b, i) == {i} \cup UNION {BindTree(b, c) : c \in b[i].children}

\* StateBinding.recursively_mark_children_as_dirty
MarkedOwners(h, b, i) ==
    {Deref(h, b[j].owner) : j \in BindTree(b, i)} \ {0}

RecursivelyMarkChildrenAsDirty(h, b, d, i) ==
    d \cup {a \in MarkedOwners(h, b, i) : h[a].sess}

\* StateBinding.set_value: delegate to the root, store, mark the tree dirty.
SetValue(S, i, x) ==
    LET r == RootOf(S.b, i)
        nb == [S.b EXCEPT ![r].value = x]
    IN [S EXCEPT !.b = nb, !.d = RecursivelyMarkChildrenAsDirty(S.h, nb, S.d, r)]

\* StateProperty.__set__ on an existing attribute of a constructed widget.
SetAttr(S, a, n, x) ==
    IF Raw(S.h[a], n).b > 0 THEN SetValue(S, Raw(S.h[a], n).b, x)
    ELSE [S EXCEPT !.h[a] = SetRaw(S.h[a], n, Plain(x)),
                   !.d = IF S.h[a].sess THEN S.d \cup {a} ELSE S.d]

\* The same for the properties that are never bound.
SetPlain(S, a, node) ==
    [S EXCEPT !.h[a] = node, !.d = IF S.h[a].sess THEN S.d \cup {a} ELSE S.d]

NewBinding(o, isroot, par, x) ==
    [owner |-> o, is_root |-> isroot, parent |-> par, value |-> x, children |-> {}]

\* Session._refresh_sync, binding injection for one attribute n of the fresh
\* widget c built by w, whose value is the StateProperty `Cls.<m>`.
InjectOne(S, w, c, n) ==
    LET m == Raw(S.h[c], n).v
        pv == Raw(S.h[w], m)
        mkroot == pv.b <= 0
        pi == IF mkroot THEN Len(S.b) + 1 ELSE pv.b
        b1 == IF mkroot THEN Append(S.b, NewBinding(w, TRUE, 0, pv.v)) ELSE S.b
        ci == Len(b1) + 1
        b2 == Append(b1, NewBinding(c, FALSE, pi, 0))
        b3 == [b2 EXCEPT ![pi].children = @ \cup {ci}]
        h1 == IF mkroot THEN [S.h EXCEPT ![w] = SetRaw(@, m, Bound(pi))] ELSE S.h
        h2 == [h1 EXCEPT ![c] = SetRaw(@, n, Bound(ci))]
    IN [S EXCEPT !.h = h2, !.b = b3]

InjectNode(S, w, c) ==
    LET S1 == IF S.h[c].title.b = -1 THEN InjectOne(S, w, c, TITLE) ELSE S
    IN IF S1.h[c].text.b = -1 THEN InjectOne(S1, w, c, TEXT) ELSE S1

RECURSIVE InjectAll(_, _, _)
InjectAll(S, w, cs) ==
    IF cs = <<>> THEN S ELSE InjectAll(InjectNode(S, w, Head(cs)), w, Tail(cs))


\* ------------------------------------------- finding pairs to reconcile
KeySet == Range(Keys)
NoMatches == [ok |-> [k \in KeySet |-> 0], nk |-> [k \in KeySet |-> 0],
              topo |-> <<>>, err |-> FALSE, col |-> <<>>]

\* register_widget_by_key: remember the widget under its key; a second
\* widget with the same key in the same tree raises the RuntimeError that
\* names both.  Once raised, nothing else of the search runs.
RegisterWidgetByKey(M, side, h, a) ==
    IF M.err \/ h[a].key = NoKey THEN M
    ELSE IF side = "old"
         THEN IF M.ok[h[a].key] # 0
              THEN [M EXCEPT !.err = TRUE, !.col = <<M.ok[h[a].key], a>>]
              ELSE [M EXCEPT !.ok[h[a].key] = a]
         ELSE IF M.nk[h[a].key] # 0
              THEN [M EXCEPT !.err = TRUE, !.col = <<M.nk[h[a].key], a>>]
              ELSE [M EXCEPT !.nk[h[a].key] = a]

RECURSIVE KeyFold(_, _, _, _)
KeyFold(M, side, h, s) ==
    IF s = <<>> THEN M
    ELSE KeyFold(RegisterWidgetByKey(M, side, h, Head(s)), side, h, Tail(s))

\* key_scan
KeyScan(M, side, h, l, a, include_self) ==
    KeyFold(M, side, h, IF include_self THEN Desc(h, l, a) ELSE Tail(Desc(h, l, a)))

RECURSIVE KeyScanAll(_, _, _, _, _)
KeyScanAll(M, side, h, l, s) ==
    IF s = <<>> THEN M
    ELSE KeyScanAll(KeyScan(M, side, h, l, Head(s), TRUE), side, h, l, Tail(s))

\* A worker that takes every pair of widgets for a topological match.
AnyType(h, o, n) == TRUE

\* worker: `type(old_widget) is type(new_widget)`
SameType(h, o, n) == h[o].cls = h[n].cls

RECURSIVE Worker(_, _, _, _, _), ChainToChildren(_, _, _, _, _)
\* worker: register both keys; equal types give a topological match and
\* the walk continues below, different types end the topological walk.
Worker(M, h, l, o, n) ==
    LET M1 == RegisterWidgetByKey(M, "old", h, o)
        M2 == RegisterWidgetByKey(M1, "new", h, n)
    IN IF M2.err THEN M2
       ELSE IF SameType(h, o, n)
       THEN ChainToChildren([M2 EXCEPT !.topo = Append(@, <<o, n>>)], h, l,
                            Kids(h, l, o), Kids(h, l, n))
       ELSE KeyScan(KeyScan(M2, "old", h, l, o, FALSE), "new", h, l, n, FALSE)

\* chain_to_children, for the one child-bearing attribute of a class: the
\* common prefix is walked pairwise, the rest only scanned for keys.
ChainToChildren(M, h, l, os, ns) ==
    IF os # <<>> /\ ns # <<>>
    THEN ChainToChildren(Worker(M, h, l, Head(os), Head(ns)), h, l, Tail(os), Tail(ns))
    ELSE KeyScanAll(KeyScanAll(M, "old", h, l, os), "new", h, l, ns)

KeyMatches(M) == {k \in KeySet : M.ok[k] # 0 /\ M.nk[k] # 0}

RECURSIVE KeyPairs(_, _)
KeyPairs(M, ks) ==
    IF ks = <<>> THEN <<>>
    ELSE (IF Head(ks) \in KeyMatches(M) THEN <<<<M.ok[Head(ks)], M.nk[Head(ks)]>>>> ELSE <<>>)
         \o KeyPairs(M, Tail(ks))

\* A filter that looks at the key of the old widget only.
KeptTopoOldOnly(M, h) ==
    LET Keep(p) == ~(h[p[1]].key \in KeyMatches(M))
    IN SelectSeq(M.topo, Keep)

\* The topological matches that survive: neither widget's key is matched.
KeptTopo(M, h) ==
    LET Keep(p) == ~(h[p[1]].key \in KeyMatches(M) \/ h[p[2]].key \in KeyMatches(M))
    IN SelectSeq(M.topo, Keep)

\* Session._find_widgets_for_reconciliation: the (old, new) pairs.
FindWidgetsForReconciliation(M, h) == KeyPairs(M, Keys) \o KeptTopo(M, h)

\* reconciled_widgets_new_to_old.get(n, None)
MapGet(pairs, n) ==
    LET I == {i \in 1..Len(pairs) : pairs[i][2] = n}
    IN IF I = {} THEN 0 ELSE pairs[CHOOSE i \in I : \A j \in I : j <= i][1]

\* ------------------------------------------------- reconciling one pair
\* A split that detaches the child binding without making it a root.
DetachBinding(bnd, x) == [bnd EXCEPT !.parent = 0, !.value = x]

\* _reconcile_widget, splitting the tree of bindings: the child of the
\* replaced binding becomes a root that holds the value.
SplitBinding(bnd, x) == [bnd EXCEPT !.is_root = TRUE, !.parent = 0, !.value = x]

\* The binding bookkeeping for one overridden bindable attribute.
BindMerge(S, o, n, nm) ==
    LET ov == Raw(S.h[o], nm)
        nv == Raw(S.h[n], nm)
    IN IF ov.b > 0 /\ nv.b <= 0
       THEN LET x == GetValue(S.b, ov.b)
                kids == S.b[ov.b].children
            IN [S EXCEPT !.b = [i \in 1..Len(S.b) |->
                    IF i = ov.b THEN [S.b[i] EXCEPT !.owner = 0]
                    ELSE IF i \in kids THEN SplitBinding(S.b[i], x)
                    ELSE S.b[i]]]
       ELSE IF ov.b > 0 /\ nv.b > 0
       THEN LET kids == S.b[ov.b].children
            IN [S EXCEPT !.b = [i \in 1..Len(S.b) |->
                    IF i = nv.b
                    THEN [S.b[i] EXCEPT !.owner = S.b[ov.b].owner,
                                        !.children = kids,
                                        !.value = S.b[ov.b].value,
                                        !.parent = IF i \in kids THEN nv.b ELSE @]
                    ELSE IF i \in kids THEN [S.b[i] EXCEPT !.parent = nv.b]
                    ELSE S.b[i]]]
       ELSE S

\* A comparison that finds every pair of values different.
NeverEqual(S, pairs, o, n, name) == FALSE

\* values_equal(getattr(old, name), getattr(new, name))
ValuesEqual(S, pairs, o, n, name) ==
    CASE name = "text" -> Attr(S.h, S.b, o, TEXT) = Attr(S.h, S.b, n, TEXT)
      [] name = "title" -> Attr(S.h, S.b, o, TITLE) = Attr(S.h, S.b, n, TITLE)
      [] name = "v" -> S.h[o].v = S.h[n].v
      [] name = "sel" -> S.h[o].sel = S.h[n].sel
      [] name = "key" -> S.h[o].key = S.h[n].key
      [] name = "margin_left" -> S.h[o].margin_left = S.h[n].margin_left
      [] name = "child" ->
           IF S.h[n].child # 0 THEN S.h[o].child = MapGet(pairs, S.h[n].child)
           ELSE S.h[o].child = 0
      [] OTHER ->
           LET ol == S.l[S.h[o].children]
               nl == S.l[S.h[n].children]
           IN Len(ol) = Len(nl) /\ \A i \in 1..Len(ol) : ol[i] = MapGet(pairs, nl[i])

\* old_widget_dict.update(overridden_values), with the key always taken over.
Override(onode, nnode, ov) ==
    [onode EXCEPT
        !.text = IF "text" \in ov THEN nnode.text ELSE @,
        !.title = IF "title" \in ov THEN nnode.title ELSE @,
        !.v = IF "v" \in ov THEN nnode.v ELSE @,
        !.sel = IF "sel" \in ov THEN nnode.sel ELSE @,
        !.margin_left = IF "margin_left" \in ov THEN nnode.margin_left ELSE @,
        !.child = IF "child" \in ov THEN nnode.child ELSE @,
        !.children = IF "children" \in ov THEN nnode.children ELSE @,
        !.key = nnode.key]

\* The attributes taken from the new widget: the state properties that were
\* explicitly passed to its constructor.
Overridden(node) == StateProps(node.cls) \cap node.explicit

\* Session._reconcile_widget
ReconcileWidget(S, pairs, o, n) ==
    IF S.h[o].cls # S.h[n].cls THEN [S EXCEPT !.e = "assert"]
    ELSE IF o = n THEN S
    ELSE
      LET ov == Overridden(S.h[n])
          S1 == IF "title" \in ov THEN BindMerge(S, o, n, TITLE) ELSE S
          S2 == IF "text" \in ov THEN BindMerge(S1, o, n, TEXT) ELSE S1
          changed == \E name \in ov : ~ValuesEqual(S2, pairs, o, n, name)
          bld == Deref(S2.h, S2.h[o].builder)
          d1 == IF changed THEN S2.d \cup {o} ELSE S2.d
      IN IF changed /\ IsHtml(S2.h[o].cls) /\ bld = 0
         THEN [S2 EXCEPT !.d = d1, !.e = "assert"]
         ELSE [S2 EXCEPT
                 !.d = IF changed /\ IsHtml(S2.h[o].cls) THEN d1 \cup {bld} ELSE d1,
                 !.h[o] = Override(S2.h[o], S2.h[n], ov)]

RECURSIVE ReconcileAll(_, _, _)
ReconcileAll(S, pairs, i) ==
    IF i > Len(pairs) \/ S.e # "none" THEN S
    ELSE ReconcileAll(ReconcileWidget(S, pairs, pairs[i][1], pairs[i][2]), pairs, i + 1)

\* -------------------------------------------------------- remap_widgets
RECURSIVE RemapWidgets(_, _, _), RemapList(_, _, _, _)
\* A widget attribute is replaced by the matched old widget and the walk
\* continues in the replacement; a list item is replaced in the list and the
\* walk continues in the item as it was read from the list.
RemapWidgets(S, pairs, p) ==
    IF S.h[p].cls = "Rectangle" /\ S.h[p].child # 0
    THEN LET c == S.h[p].child
             c2 == IF MapGet(pairs, c) # 0 THEN MapGet(pairs, c) ELSE c
         IN RemapWidgets([S EXCEPT !.h[p].child = c2], pairs, c2)
    ELSE IF S.h[p].cls = "Row" THEN RemapList(S, pairs, S.h[p].children, 1)
    ELSE S

RemapList(S, pairs, lid, ii) ==
    IF ii > Len(S.l[lid]) THEN S
    ELSE LET item == S.l[lid][ii]
             S1 == IF MapGet(pairs, item) # 0
                   THEN [S EXCEPT !.l[lid][ii] = MapGet(pairs, item)]
                   ELSE S
         IN RemapList(RemapWidgets(S1, pairs, item), pairs, lid, ii + 1)

\* ------------------------------------------------------ _reconcile_tree
\* A reconciliation that registers no widget of the new tree as dirty.
RegisterNone(S, pairs, rbr) == S

\* Every widget of the reconciled build result that is not the old side of
\* a pair is registered dirty.
RegisterUnmatched(S, pairs, rbr) ==
    LET olds == {pairs[i][1] : i \in 1..Len(pairs)}
    IN [S EXCEPT !.d = @ \cup (Range(Desc(S.h, S.l, rbr)) \ olds)]

\* Session._reconcile_tree; S.r is the build result stored afterwards.
ReconcileTree(S, old_build, new_build) ==
    LET M == Worker(NoMatches, S.h, S.l, old_build, new_build)
        pairs == FindWidgetsForReconciliation(M, S.h)
        S1 == ReconcileAll(S, pairs, 1)
        rbr == IF MapGet(pairs, new_build) # 0 THEN MapGet(pairs, new_build) ELSE new_build
        S2 == RemapWidgets(S1, pairs, rbr)
    IN IF M.err THEN [S EXCEPT !.e = "dupkey", !.m = M, !.p = <<>>]
       ELSE IF S1.e # "none" THEN [S1 EXCEPT !.m = M, !.p = pairs]
       ELSE [RegisterUnmatched(S2, pairs, rbr) EXCEPT
                !.r = IF MapGet(pairs, new_build) # 0 THEN old_build ELSE new_build,
                !.m = M, !.p = pairs]


\* ----------------------------------------------------------- the session
\* The session's root widget is the first widget constructed (app.build()).
root_widget == 1

\* What app.build() returns: one of the application classes, or a tree of
\* fundamental widgets.
RootTemplates ==
    {<<TApp(c)>> : c \in AppClasses}
    \cup {<<TRow(<<2>>, NoKey), TText(1, NoKey)>>,
          <<TRectangle(2, NoKey), TSub(0)>>}

NoLast == [op |-> "none", w |-> 0, first |-> FALSE, pairs |-> <<>>,
           ok |-> NoMatches.ok, nk |-> NoMatches.nk, topo |-> <<>>,
           old |-> 0, new |-> 0, added |-> {}, col |-> <<>>,
           same |-> FALSE, visited |-> {}, name |-> "",
           handler |-> [raises |-> FALSE, assigns |-> FALSE], val |-> 0,
           n |-> 0]

\* The tasks of one session that call Session._refresh: the task created
\* for the initial refresh, and a task that runs a message or event handler.
Tasks == {"initial", "handler"}

\* No task is inside Session._refresh: the refresh lock is free, no pass has
\* completed and nothing was handed to the outbound channel.
NoRun == [lock |-> "", phase |-> [t \in Tasks |-> "none"],
          result |-> [t \in Tasks |-> {}], delta |-> [t \in Tasks |-> <<>>],
          pass |-> [t \in Tasks |-> 0], passes |-> 0, wire |-> <<>>,
          boot |-> {}, raised |-> FALSE]

\* ------------------------------------------------------- the app server
\* The session tokens a client can present and the upload tokens a
\* file chooser can be given.
Tokens == {1, 2}
UploadTokens == {1, 2}

\* The preference fields of the settings class of the application, with
\* their type hints.
PrefFields == ("theme" :> "str") @@ ("size" :> "int")

\* The settings instance of a session after construction: the defaults,
\* nothing dirty, no write-back task, the settings lock free, no persist
\* message sent.  unsent holds the fields assigned since their value was
\* last put into a message.
NoPrefs ==
    [value |-> [f \in DOMAIN PrefFields |-> [t |-> PrefFields[f], v |-> 0]],
     dirty |-> {}, task |-> "none", lock |-> FALSE,
     sent |-> <<>>, unsent |-> {}]

\* The process before any `_id` was read: `_unique_id_counter = -1`, no
\* widget has an `_id` entry in its vars.  order lists the widgets in the
\* order of their first access, ret is the value the last access returned
\* and again tells whether that widget had been accessed before.
NoIds == [counter |-> -1, of |-> <<>>, order |-> <<>>, ret |-> -1, again |-> FALSE]

\* The state of the app server and of its one websocket connection before
\* anything happened: no token issued, the connection not yet upgraded, no
\* settings, no pending upload.  log is the sequence of events of the
\* connection: accept, recv and send on the transport, the notifications
\* start and end, and the rejection of the upgrade.
NoServer ==
    [tokens |-> [k \in Tokens |-> "none"],
     phase |-> "connecting", reason |-> "",
     log |-> <<>>,
     schema |-> <<>>, handshake |-> <<>>, settings |-> <<>>,
     uploads |-> [k \in UploadTokens |-> "none"],
     chooser |-> [k \in UploadTokens |-> "none"],
     files |-> [k \in UploadTokens |-> <<>>],
     response |-> [token |-> 0, status |-> 0, req |-> <<>>],
     prefs |-> NoPrefs,
     ids |-> NoIds]

\* The server with a session being served: the upgrade with token 1 was
\* accepted, the handshake received and the start notification delivered.
ActiveServer ==
    [NoServer EXCEPT !.tokens[1] = "active", !.phase = "active",
                     !.log = <<"accept", "recv", "start">>]

\* AppServer._serve_websocket up to the creation of the refresh task: the
\* root is built by the application, the session is created around it and
\* the root is registered dirty together with its fundamental children.
InitWith(T) ==
    \E t \in T :
        /\ heap = NewNodes(t, 0)
        /\ lists = NewLists(t, 0)
        /\ binds = <<>>
        /\ wdata = [i \in 1..Len(t) |-> NoData]
        /\ dirty = RegisterDirty(NewNodes(t, 0), NewLists(t, 0), {}, root_widget, TRUE)
        /\ byId = {}
        /\ pc = "idle"
        /\ visited = {}
        /\ initialized = {}
        /\ client = <<>>
        /\ sent = <<>>
        /\ err = "none"
        /\ nassign = 0
        /\ last = NoLast
        /\ removed = {}
        /\ matchedNew = {}
        /\ sincePass = "assigned"
        /\ run = NoRun
        /\ srv = ActiveServer

Init == InitWith(RootTemplates)

Store == [h |-> heap, l |-> lists, b |-> binds, d |-> dirty, e |-> "none",
          r |-> 0, m |-> NoMatches, p |-> <<>>]

\* The widgets application code can hold a reference to and assign to: the
\* ones that have been through a refresh pass and are not collected.
Assignable == {a \in 1..Len(heap) : heap[a].sess /\ ~heap[a].freed}

\* An assignment `widget.<attr> = x` (StateProperty.__set__), made by
\* application code between refresh passes.
Assign(a, name, x) ==
    /\ pc = "idle" /\ err = "none"
    /\ nassign < MaxAssign
    /\ a \in Assignable
    /\ LET S == IF name = "v" THEN SetPlain(Store, a, [heap[a] EXCEPT !.v = x])
                ELSE IF name = "title" THEN SetAttr(Store, a, TITLE, x)
                ELSE SetAttr(Store, a, TEXT, x)
       IN /\ heap' = S.h
          /\ binds' = S.b
          /\ dirty' = S.d
    /\ nassign' = nassign + 1
    /\ last' = [NoLast EXCEPT !.op = "assign", !.w = a, !.name = name]
    /\ sincePass' = "assigned"
    /\ UNCHANGED <<lists, wdata, byId, pc, visited, initialized, client, sent,
                   err, removed, matchedNew, run, srv>>

AssignAny ==
    \E a \in 1..Len(heap) :
        \/ /\ heap[a].cls \in CompositeClasses
           /\ \E x \in Variants : Assign(a, "v", x)
        \/ /\ heap[a].cls \in BindingClasses
           /\ \E x \in Texts : Assign(a, "title", x)
        \/ /\ heap[a].cls = "Text"
           /\ \E x \in Texts : Assign(a, "text", x)

\* Session._refresh up to the build loop: nothing dirty returns at once,
\* otherwise the pass starts with an empty visited set.
RefreshStart ==
    /\ pc = "idle" /\ err = "none"
    /\ dirty # {}
    /\ pc' = "building"
    /\ visited' = {}
    /\ last' = [NoLast EXCEPT !.op = "start"]
    /\ UNCHANGED <<heap, lists, binds, wdata, dirty, byId, initialized, client,
                   sent, err, nassign, removed, matchedNew, sincePass, run, srv>>

RECURSIVE Held(_, _, _, _)
\* The widgets a widget keeps alive: itself, the widgets in its child
\* attributes and, for a built composite, its stored build result.
Held(h, l, wd, a) ==
    {a} \cup UNION {Held(h, l, wd, c) : c \in Range(Kids(h, l, a))}
        \cup (IF a <= Len(wd) /\ wd[a].built
              THEN Held(h, l, wd, wd[a].build_result) ELSE {})

RECURSIVE SameTree(_, _, _)
\* Two constructed trees are structurally identical with equal values of
\* the constructor arguments everywhere.
SameTree(S, o, n) ==
    /\ S.h[o].cls = S.h[n].cls
    /\ S.h[o].key = S.h[n].key
    /\ S.h[o].explicit = S.h[n].explicit
    /\ Attr(S.h, S.b, o, TEXT) = Attr(S.h, S.b, n, TEXT)
    /\ Attr(S.h, S.b, o, TITLE) = Attr(S.h, S.b, n, TITLE)
    /\ S.h[o].v = S.h[n].v
    /\ S.h[o].margin = S.h[n].margin
    /\ Len(Kids(S.h, S.l, o)) = Len(Kids(S.h, S.l, n))
    /\ \A i \in 1..Len(Kids(S.h, S.l, o)) :
          SameTree(S, Kids(S.h, S.l, o)[i], Kids(S.h, S.l, n)[i])

\* The build function of the composite w has run: the new widgets are
\* constructed and the bindings to w's properties are injected.
Fresh(w) ==
    LET t == Build(heap[w].cls, heap[w].v)
        base == Len(heap)
        h1 == [heap EXCEPT ![w].sess = TRUE] \o NewNodes(t, base)
        l1 == lists \o NewLists(t, base)
        S0 == [h |-> h1, l |-> l1, b |-> binds, d |-> dirty \ {w},
               e |-> "none", r |-> base + 1, m |-> NoMatches, p |-> <<>>]
    IN InjectAll(S0, w, Desc(h1, l1, base + 1))

\* The body of one iteration for a composite widget w: build, inject the
\* bindings, and register (first build) or reconcile (rebuild) the output.
Rebuild(w) ==
    LET S1 == Fresh(w)
    IN IF ~wdata[w].built
       THEN [S1 EXCEPT !.d = RegisterDirty(S1.h, S1.l, @, S1.r, TRUE)]
       ELSE ReconcileTree(S1, wdata[w].build_result, S1.r)

\* A build record whose generation is never incremented.
SameBuildGeneration(wd, w) ==
    IF ~wd[w].built THEN 0 ELSE wd[w].build_generation

\* The generation of the build record after this build: 0 when the record
\* is created, one more than before on every rebuild.
BuildGeneration(wd, w) ==
    IF ~wd[w].built THEN 0 ELSE wd[w].build_generation + 1

\* The iterations the build loop of the running pass has made so far.
Iterations == IF last.op \in {"build", "visit"} THEN last.n ELSE 0

\* One iteration of the build loop of Session._refresh_sync for the popped
\* widget w.
BuildStep(w) ==
    /\ pc = "building" /\ err = "none"
    /\ w \in dirty
    /\ visited' = visited \cup {w}
    /\ byId' = byId \cup {w}
    /\ IF IsHtml(heap[w].cls)
       THEN /\ heap' = [heap EXCEPT ![w].sess = TRUE]
            /\ dirty' = dirty \ {w}
            /\ last' = [NoLast EXCEPT !.op = "visit", !.w = w, !.n = Iterations + 1]
            /\ UNCHANGED <<lists, binds, wdata, pc, err, removed, matchedNew>>
       ELSE
         \E S2 \in {Rebuild(w)} :
         LET first == ~wdata[w].built
             old == wdata[w].build_result
             gen == BuildGeneration(wdata, w)
             tagged == FundSet(S2.h, S2.l, S2.r)
             h3 == [a \in 1..Len(S2.h) |->
                      IF a \in tagged
                      THEN [S2.h[a] EXCEPT !.builder = w, !.gen = gen]
                      ELSE S2.h[a]]
             wd1 == wdata \o [i \in 1..(Len(S2.h) - Len(heap)) |-> NoData]
             lst == [NoLast EXCEPT !.op = "build", !.w = w, !.first = first,
                        !.pairs = S2.p, !.ok = S2.m.ok, !.nk = S2.m.nk,
                        !.topo = S2.m.topo, !.col = S2.m.col,
                        !.old = old, !.new = Len(heap) + 1, !.added = S2.d \ (dirty \ {w}),
                        !.same = ~first /\ SameTree(Fresh(w), old, Len(heap) + 1),
                        !.n = Iterations + 1]
             wd3 == [wd1 EXCEPT ![w] =
                           [built |-> TRUE, build_result |-> S2.r,
                            build_generation |-> gen,
                            contained_widget_ids |-> wdata[w].contained_widget_ids]]
         IN /\ lists' = S2.l
            /\ binds' = S2.b
            /\ dirty' = S2.d
            /\ err' = S2.e
            /\ last' = lst
            /\ IF S2.e # "none"
               THEN /\ heap' = S2.h
                    /\ wdata' = wd1
                    /\ pc' = "idle"
                    /\ UNCHANGED <<removed, matchedNew>>
               ELSE /\ heap' = h3
                    /\ wdata' = wd3
                    /\ pc' = pc
                    /\ removed' = IF first THEN removed
                                  ELSE removed \cup
                                       (Held(heap, lists, wdata, old)
                                        \ Held(h3, S2.l, wd3, S2.r))
                    /\ matchedNew' = matchedNew \cup
                           {S2.p[i][2] : i \in {j \in 1..Len(S2.p) : S2.p[j][1] # S2.p[j][2]}}
    /\ UNCHANGED <<initialized, client, sent, nassign, sincePass, run, srv>>

\* A liveness check that ignores the generation tag.
AnyGeneration(h, wd, parent, a) == TRUE

\* The generation check of is_alive: the widget's tag is the current build
\* generation of its builder.
SameGeneration(h, wd, parent, a) == wd[parent].build_generation = h[a].gen

RECURSIVE IsAlive(_, _, _)
\* is_alive: the root, or a widget whose builder still exists, whose
\* generation tag is the builder's current build generation and whose
\* builder is alive.
IsAlive(h, wd, a) ==
    IF a = root_widget THEN TRUE
    ELSE LET parent == Deref(h, h[a].builder)
         IN IF parent = 0 THEN FALSE
            ELSE SameGeneration(h, wd, parent, a) /\ IsAlive(h, wd, parent)

\* The widget ids a serialized widget refers to (_serialize_and_host_widget):
\* child attributes by id, a placeholder by the id of its build result.
ChildRefs(h, l, wd, a) ==
    IF IsHtml(h[a].cls) THEN Kids(h, l, a) ELSE <<wd[a].build_result>>

\* Dropdown._custom_serialize: without a selected value the first option is
\* assigned to selected_value.
FirstOption == 1
NeedsSelection(h, a) == h[a].cls = "Dropdown" /\ h[a].sel = 0

\* The end of Session._refresh_sync and the rest of Session._refresh: the
\* live visited widgets are serialized and sent as one updateWidgetStates
\* message; nothing is sent when there is none.
RefreshFinish ==
    /\ pc = "building" /\ err = "none"
    /\ dirty = {}
    /\ LET result == {a \in visited : IsAlive(heap, wdata, a)}
           sel == {a \in result : NeedsSelection(heap, a)}
           h1 == [a \in 1..Len(heap) |->
                    IF a \in sel THEN [heap[a] EXCEPT !.sel = FirstOption] ELSE heap[a]]
       IN IF result = {}
          THEN UNCHANGED <<heap, dirty, initialized, client, sent>>
          ELSE /\ heap' = h1
               /\ dirty' = sel
               /\ initialized' = initialized \cup
                      {heap[a].cls : a \in {x \in result : IsHtml(heap[x].cls)}}
               /\ client' = [a \in DOMAIN client \cup result |->
                               IF a \in result THEN ChildRefs(h1, lists, wdata, a)
                               ELSE client[a]]
               /\ sent' = Append(sent,
                      [deltaStates |-> result,
                       rootWidgetId |-> IF root_widget \in result THEN root_widget ELSE 0])
    /\ pc' = "idle"
    /\ visited' = {}
    /\ last' = [NoLast EXCEPT !.op = "finish", !.visited = visited]
    /\ sincePass' = "clean"
    /\ UNCHANGED <<lists, binds, wdata, byId, err, nassign, removed, matchedNew,
                   run, srv>>

\* The widgets held strongly by the session: the root, the visited set of a
\* running pass or of a task suspended in _refresh, and everything they hold.
InTree ==
    UNION {Held(heap, lists, wdata, a) :
             a \in {root_widget} \cup visited \cup UNION {run.result[t] : t \in Tasks}}

\* A widget that nothing holds any more disappears from the weak
\* containers of the session.  Only widgets that the weak containers can
\* still observe are considered, and a widget is not collected before a
\* widget of that kind that refers to it.
Observable(a) == ~heap[a].freed /\ (heap[a].sess \/ a \in dirty)

Garbage == {a \in 1..Len(heap) : Observable(a)} \ InTree

Collect(a) ==
    /\ pc = "idle" /\ err = "none"
    /\ a \in Garbage
    /\ \A p \in Garbage \ {a} : a \notin Held(heap, lists, wdata, p)
    /\ heap' = [heap EXCEPT ![a].freed = TRUE]
    /\ dirty' = dirty \ {a}
    /\ byId' = byId \ {a}
    /\ UNCHANGED <<lists, binds, wdata, pc, visited, initialized, client, sent,
                   err, nassign, last, removed, matchedNew, sincePass, run, srv>>

\* ------------------------------------------------------ inbound messages
\* A lookup in the identity map that ignores that the map holds its widgets
\* weakly.
StrongGetWidgetForMessage(known, h, id) ==
    IF id \in 1..Len(h) THEN id ELSE 0

\* Session._try_get_widget_for_message: the widget registered under the id,
\* or None (0) when the identity map has no such entry.
TryGetWidgetForMessage(known, h, id) ==
    IF id \in known THEN id ELSE 0

\* The attribute names a client state update carries: a state property of
\* Text, and a name that is no state property of any class.
DeltaNames == {"text", "nope"}

\* The ids a client message is addressed to: ids the client was sent, the
\* ids of widgets that are gone, and an id that was never issued.
MessageIds == DOMAIN client \cup byId \cup {a \in 1..Len(heap) : heap[a].freed} \cup {0}

\* Session._widget_state_update with HtmlWidget._on_state_update: unknown ids
\* are dropped, the addressed widget must be fundamental and the attribute a
\* state property of its class (assertions); the value is assigned and the
\* handler goes on to a refresh.
WidgetStateUpdate(id, name, x) ==
    /\ pc = "idle" /\ err = "none"
    /\ srv.phase = "active"
    /\ nassign < MaxAssign
    /\ nassign' = nassign + 1
    /\ last' = [NoLast EXCEPT !.op = "update", !.w = id, !.name = name]
    /\ LET widget == TryGetWidgetForMessage(byId, heap, id)
       IN IF widget = 0
          THEN UNCHANGED <<heap, binds, dirty, err, sincePass>>
          ELSE IF ~IsHtml(heap[widget].cls) \/ name \notin StateProps(heap[widget].cls)
          THEN /\ err' = "assert"
               /\ UNCHANGED <<heap, binds, dirty, sincePass>>
          ELSE LET S == SetAttr(Store, widget, TEXT, x)
               IN /\ heap' = S.h
                  /\ binds' = S.b
                  /\ dirty' = S.d
                  /\ sincePass' = "assigned"
                  /\ UNCHANGED err
    /\ UNCHANGED <<lists, wdata, byId, pc, visited, initialized, client, sent,
                   removed, matchedNew, run, srv>>

\* The option names a Dropdown message carries: the name of an option and a
\* name the Dropdown does not have.
OptionNames == {FirstOption, 0}

\* Session.widget_message with the _on_message of the addressed widget:
\* unknown ids are dropped, a composite raises the RuntimeError of
\* Widget._on_message, a Dropdown takes the named option as its selected
\* value and ignores unknown names, other fundamental widgets do nothing.
WidgetMessage(id, opt) ==
    /\ pc = "idle" /\ err = "none"
    /\ srv.phase = "active"
    /\ nassign < MaxAssign
    /\ nassign' = nassign + 1
    /\ last' = [NoLast EXCEPT !.op = "message", !.w = id]
    /\ ~(id \in byId /\ heap[id].cls = "TextInput")
    /\ LET widget == TryGetWidgetForMessage(byId, heap, id)
       IN IF widget = 0
          THEN UNCHANGED <<heap, dirty, err, sincePass>>
          ELSE IF ~IsHtml(heap[widget].cls)
          THEN /\ err' = "runtime"
               /\ UNCHANGED <<heap, dirty, sincePass>>
          ELSE IF heap[widget].cls = "Dropdown" /\ opt # 0
          THEN LET S == SetPlain(Store, widget, [heap[widget] EXCEPT !.sel = opt])
               IN /\ heap' = S.h
                  /\ dirty' = S.d
                  /\ sincePass' = "assigned"
                  /\ UNCHANGED err
          ELSE UNCHANGED <<heap, dirty, err, sincePass>>
    /\ UNCHANGED <<lists, binds, wdata, byId, pc, visited, initialized, client,
                   sent, removed, matchedNew, run, srv>>

\* An event handler call that lets the exception of the handler through.
PropagatingEventHandler(hd) == IF hd.raises THEN "exception" ELSE "none"

\* Widget._call_event_handler: the handler is called and awaited; an
\* exception it raises is printed and discarded.
CallEventHandler(hd) == "none"

\* The event handlers an application attaches to a TextInput: a handler
\* returns or raises, and before that it may assign a field of the root.
Handlers == [raises : BOOLEAN, assigns : BOOLEAN]

\* What a handler does to the session before it returns or raises.
HandlerEffect(S, hd) ==
    IF hd.assigns
    THEN SetPlain(S, root_widget, [S.h[root_widget] EXCEPT !.v = 1])
    ELSE S

\* The inbound handlers of a TextInput with an on_change handler attached.
\* _on_state_update calls the handler and chains up to the assignment of
\* HtmlWidget._on_state_update; _on_message assigns the text and calls the
\* handler.  Both go on to a refresh.
TextInputInbound(id, kind, x, hd) ==
    /\ pc = "idle" /\ err = "none"
    /\ srv.phase = "active"
    /\ nassign < MaxAssign
    /\ id \in byId /\ heap[id].cls = "TextInput"
    /\ nassign' = nassign + 1
    /\ last' = [NoLast EXCEPT !.op = "input", !.w = id, !.name = kind,
                              !.handler = hd, !.val = x]
    /\ run' = [run EXCEPT !.raised = @ \/ hd.raises]
    /\ LET e == CallEventHandler(hd)
           S1 == IF kind = "update"
                 THEN HandlerEffect(Store, hd)
                 ELSE HandlerEffect(SetAttr(Store, id, TEXT, x), hd)
           S2 == IF kind = "update" /\ e = "none"
                 THEN SetAttr(S1, id, TEXT, x) ELSE S1
       IN /\ heap' = S2.h
          /\ binds' = S2.b
          /\ dirty' = S2.d
          /\ err' = e
    /\ sincePass' = "assigned"
    /\ UNCHANGED <<lists, wdata, byId, pc, visited, initialized, client, sent,
                   removed, matchedNew, srv>>

TextInputAny ==
    \E id \in byId : \E kind \in {"update", "message"} : \E hd \in Handlers :
        TextInputInbound(id, kind, 2, hd)

Inbound ==
    \E id \in MessageIds :
        \/ \E name \in DeltaNames : WidgetStateUpdate(id, name, 2)
        \/ \E opt \in OptionNames : WidgetMessage(id, opt)

Next ==
    \/ AssignAny
    \/ Inbound
    \/ RefreshStart
    \/ \E w \in dirty : BuildStep(w)
    \/ RefreshFinish
    \/ \E a \in Garbage : Collect(a)

Spec == Init /\ [][Next]_vars

\* ------------------------------------------- concurrent calls of _refresh
\* A refresh that takes the lock whether or not another task holds it.
LockIgnored(l) == TRUE

\* asyncio.Lock: the lock can be taken when no task holds it.
LockFree(l) == l = ""

\* A message that never names the root.
RootWidgetIdNever(result) == 0

\* Session._refresh: the id of the root when the root was visited, else
\* None.
RootWidgetId(result) == IF root_widget \in result THEN root_widget ELSE 0

\* Session._refresh, the synchronous part after the awaits of the client
\* initialization: the visited live widgets are serialized, which assigns
\* the selected value of a Dropdown that has none, and the message is made.
Serialize(t, result) ==
    LET sel == {a \in result : NeedsSelection(heap, a)}
        h1 == [a \in 1..Len(heap) |->
                 IF a \in sel THEN [heap[a] EXCEPT !.sel = FirstOption] ELSE heap[a]]
    IN [h |-> h1, d |-> dirty \cup sel,
        msg |-> [deltaStates |-> result,
                 rootWidgetId |-> RootWidgetId(result),
                 refs |-> [a \in result |-> ChildRefs(h1, lists, wdata, a)],
                 pass |-> run.pass[t]]]

\* `async with self._refresh_lock` and the start of _refresh_sync in task t.
\* A refresh with nothing dirty returns at once.
Acquire(t) ==
    /\ pc = "idle" /\ err = "none"
    /\ run.phase[t] = "none"
    /\ LockFree(run.lock)
    /\ dirty # {}
    /\ pc' = "building"
    /\ visited' = {}
    /\ last' = [NoLast EXCEPT !.op = "start"]
    /\ run' = [run EXCEPT !.lock = t, !.phase[t] = "sync"]
    /\ UNCHANGED <<heap, lists, binds, wdata, dirty, byId, initialized, client,
                   sent, err, nassign, removed, matchedNew, sincePass, srv>>

\* Every class of the visited fundamental widgets, initialized or not.
AllHtmlClasses(result) ==
    {heap[a].cls : a \in {x \in result : IsHtml(heap[x].cls)}}

\* The classes of the visited fundamental widgets that the client has not
\* been initialized for.
Uninitialized(result) ==
    {heap[a].cls : a \in {x \in result : IsHtml(heap[x].cls)}} \ initialized

\* The end of _refresh_sync in task t: the pass is complete.  Without live
\* visited widgets _refresh returns; with classes to initialize the task
\* awaits the client; otherwise it serializes and awaits the hand-off of
\* the message.
SyncDone(t) ==
    /\ pc = "building" /\ err = "none"
    /\ run.phase[t] = "sync"
    /\ dirty = {}
    /\ pc' = "idle"
    /\ visited' = {}
    /\ last' = [NoLast EXCEPT !.op = "finish", !.visited = visited]
    /\ LET result == {a \in visited : IsAlive(heap, wdata, a)}
           r1 == [run EXCEPT !.passes = @ + 1, !.pass[t] = run.passes + 1,
                             !.result[t] = result]
       IN IF result = {}
          THEN /\ run' = [r1 EXCEPT !.phase[t] = "none", !.result[t] = {},
                                    !.lock = IF @ = t THEN "" ELSE @]
               /\ UNCHANGED <<heap, dirty>>
          ELSE IF Uninitialized(result) # {}
          THEN /\ run' = [r1 EXCEPT !.phase[t] = "init"]
               /\ UNCHANGED <<heap, dirty>>
          ELSE LET Z == Serialize(t, result)
               IN /\ heap' = Z.h
                  /\ dirty' = Z.d
                  /\ run' = [r1 EXCEPT !.phase[t] = "send",
                                       !.delta[t] = <<[Z.msg EXCEPT !.pass = run.passes + 1]>>]
    /\ UNCHANGED <<lists, binds, wdata, byId, initialized, client, sent, err,
                   nassign, removed, matchedNew, sincePass, srv>>

\* Task t returns from the awaits of _initialize_on_client, records the
\* classes as initialized, serializes and awaits the hand-off of the message.
InitDone(t) ==
    /\ pc = "idle" /\ err = "none"
    /\ run.phase[t] = "init"
    /\ initialized' = initialized \cup Uninitialized(run.result[t])
    /\ LET Z == Serialize(t, run.result[t])
       IN /\ heap' = Z.h
          /\ dirty' = Z.d
          /\ run' = [run EXCEPT !.phase[t] = "send", !.delta[t] = <<Z.msg>>,
                                !.boot = @ \cup
                                    {[cls |-> c, at |-> Len(sent)] :
                                       c \in Uninitialized(run.result[t])}]
    /\ UNCHANGED <<lists, binds, wdata, byId, pc, visited, client, sent, err,
                   nassign, last, removed, matchedNew, sincePass, srv>>

\* `await self._update_widget_states(...)` in task t: the message is on the
\* wire, the client applies it, and _refresh returns, releasing the lock.
SendDone(t) ==
    /\ pc = "idle" /\ err = "none"
    /\ run.phase[t] = "send"
    /\ LET msg == run.delta[t][1]
       IN /\ sent' = Append(sent, [deltaStates |-> msg.deltaStates,
                                   rootWidgetId |-> msg.rootWidgetId])
          /\ client' = [a \in DOMAIN client \cup msg.deltaStates |->
                          IF a \in msg.deltaStates THEN msg.refs[a] ELSE client[a]]
          /\ run' = [run EXCEPT !.phase[t] = "none", !.result[t] = {},
                                !.delta[t] = <<>>,
                                !.lock = IF @ = t THEN "" ELSE @,
                                !.wire = Append(@, msg.pass)]
    /\ last' = [NoLast EXCEPT !.op = "sent"]
    /\ sincePass' = IF dirty = {} THEN "clean" ELSE sincePass
    /\ UNCHANGED <<heap, lists, binds, wdata, dirty, byId, pc, visited,
                   initialized, err, nassign, removed, matchedNew, srv>>

TaskNext ==
    \/ AssignAny
    \/ Inbound
    \/ TextInputAny
    \/ \E t \in Tasks : Acquire(t)
    \/ \E w \in dirty : BuildStep(w)
    \/ \E t \in Tasks : SyncDone(t)
    \/ \E t \in Tasks : InitDone(t)
    \/ \E t \in Tasks : SendDone(t)
    \/ \E a \in Garbage : Collect(a)

\* ------------------------------------------ the websocket of the app server
\* JSON values of a handshake: a string and a number.
JsonValues == {[t |-> "str", v |-> 1], [t |-> "int", v |-> 1]}

\* The keys of the user_settings object a client sends.
InboundKeys == {"theme", "size", "bogus_field"}

\* The initial messages: user_settings maps any of the keys to any value.
InitialMessages == UNION {[D -> JsonValues] : D \in SUBSET InboundKeys}

\* The fields UserSettings itself declares; they are no settings fields.
InternalFields == {"_reflex_session_"}

\* The type hints of the settings classes an application attaches.
Schemata ==
    {("theme" :> "str") @@ ("_reflex_session_" :> "internal"),
     ("theme" :> "str") @@ ("size" :> "int") @@ ("_reflex_session_" :> "internal")}

\* The field values of the default settings instance attached to the app.
DefaultUserSettings ==
    ("theme" :> [t |-> "str", v |-> 0]) @@ ("size" :> [t |-> "int", v |-> 0])

\* uniserde.from_json: the value when it is of the requested type, SerdeError
\* (the empty sequence) otherwise.
FromJson(value, type) == IF value.t = type THEN <<value>> ELSE <<>>

\* Settings that take every inbound value as it comes.
InboundUserSettings(schema, defaults, inbound) ==
    [f \in DOMAIN schema \ InternalFields |->
        IF f \in DOMAIN inbound THEN inbound[f] ELSE defaults[f]]

\* AppServer._serve_websocket, the settings of the session: every field of
\* the settings class except the internal ones takes the parsed inbound
\* value, or a copy of the default when the key is missing or does not parse.
SessionUserSettings(schema, defaults, inbound) ==
    [f \in DOMAIN schema \ InternalFields |->
        IF f \in DOMAIN inbound /\ FromJson(inbound[f], schema[f]) # <<>>
        THEN FromJson(inbound[f], schema[f])[1]
        ELSE defaults[f]]

\* A check that lets every token pass.
AnySessionToken(tokens, k) == TRUE

\* AppServer.check_and_refresh_session: the token is in the registry of
\* active session tokens.
CheckAndRefreshSession(tokens, k) == tokens[k] = "active"

\* A session end that is notified only after a disconnect of the transport.
SessionEndOnDisconnect(reason) ==
    IF reason = "disconnect" THEN <<"end">> ELSE <<>>

\* The finally clause of AppServer._serve_websocket: on_session_end is called
\* however the serving ended.
SessionEnd(reason) == <<"end">>

\* The server starts with the settings class of the application and nothing
\* else; no session and no widget exists.
ServerInit ==
    /\ heap = <<>> /\ lists = <<>> /\ binds = <<>> /\ wdata = <<>>
    /\ dirty = {} /\ byId = {} /\ pc = "idle" /\ visited = {}
    /\ initialized = {} /\ client = <<>> /\ sent = <<>> /\ err = "none"
    /\ nassign = 0 /\ last = NoLast /\ removed = {} /\ matchedNew = {}
    /\ sincePass = "assigned" /\ run = NoRun
    /\ \E sc \in Schemata : srv = [NoServer EXCEPT !.schema = sc]

\* AppServer._serve_index: a fresh session token is put into the registry.
IssueToken(k) ==
    /\ srv.tokens[k] = "none"
    /\ srv' = [srv EXCEPT !.tokens[k] = "active"]
    /\ UNCHANGED <<heap, lists, binds, wdata, dirty, byId, pc, visited,
                   initialized, client, sent, err, nassign, last, removed,
                   matchedNew, sincePass, run>>

\* The registry of session tokens drops a token whose lifetime is over.
ExpireToken(k) ==
    /\ srv.tokens[k] = "active"
    /\ srv' = [srv EXCEPT !.tokens[k] = "expired"]
    /\ UNCHANGED <<heap, lists, binds, wdata, dirty, byId, pc, visited,
                   initialized, client, sent, err, nassign, last, removed,
                   matchedNew, sincePass, run>>

\* AppServer._serve_websocket up to websocket.accept(): the token is checked;
\* an unknown token raises the HTTPException 401, a known one is refreshed
\* and the socket is accepted.
Upgrade(k) ==
    /\ srv.phase = "connecting"
    /\ IF CheckAndRefreshSession(srv.tokens, k)
       THEN srv' = [srv EXCEPT !.phase = "handshake", !.log = Append(@, "accept"),
                               !.tokens[k] = "active"]
       ELSE srv' = [srv EXCEPT !.phase = "rejected",
                               !.log = Append(@, "unauthorized")]
    /\ UNCHANGED <<heap, lists, binds, wdata, dirty, byId, pc, visited,
                   initialized, client, sent, err, nassign, last, removed,
                   matchedNew, sincePass, run>>

\* AppServer._serve_websocket from the receipt of the initial message to the
\* creation of the session: the settings are filled in, then the application
\* builds the root widget and the session is created around it.
Handshake(msg, t) ==
    /\ srv.phase = "handshake"
    /\ srv' = [srv EXCEPT !.phase = "starting", !.log = Append(@, "recv"),
                          !.handshake = msg,
                          !.settings = SessionUserSettings(srv.schema,
                                           DefaultUserSettings, msg)]
    /\ heap' = NewNodes(t, 0)
    /\ lists' = NewLists(t, 0)
    /\ wdata' = [i \in 1..Len(t) |-> NoData]
    /\ UNCHANGED <<binds, dirty, byId, pc, visited, initialized, client, sent,
                   err, nassign, last, removed, matchedNew, sincePass, run>>

\* AppServer._serve_websocket after the on_session_start handler returned:
\* the root is registered dirty, the refresh task is created and the socket
\* is served.
SessionStart ==
    /\ srv.phase = "starting"
    /\ srv' = [srv EXCEPT !.phase = "active", !.log = Append(@, "start")]
    /\ dirty' = RegisterDirty(heap, lists, {}, root_widget, TRUE)
    /\ UNCHANGED <<heap, lists, binds, wdata, byId, pc, visited, initialized,
                   client, sent, err, nassign, last, removed, matchedNew,
                   sincePass, run>>

\* Session.serve returns or raises - the transport disconnected or serving
\* failed otherwise - and the session end is notified.
ServeEnds(reason) ==
    /\ srv.phase = "active"
    /\ srv' = [srv EXCEPT !.phase = "closed", !.reason = reason,
                          !.log = @ \o SessionEnd(reason)]
    /\ UNCHANGED <<heap, lists, binds, wdata, dirty, byId, pc, visited,
                   initialized, client, sent, err, nassign, last, removed,
                   matchedNew, sincePass, run>>

\* The applications served with concurrent refresh tasks.
TaskRoots == {<<TApp("AppBind")>>, <<TApp("AppSwap")>>, <<TApp("AppInput")>>}

TaskSpec == InitWith(TaskRoots) /\ [][TaskNext]_vars

ServerNext ==
    \/ \E k \in Tokens : IssueToken(k)
    \/ \E k \in Tokens : ExpireToken(k)
    \/ \E k \in Tokens : Upgrade(k)
    \/ \E msg \in InitialMessages : \E t \in {<<TApp("AppBind")>>, <<TApp("AppInput")>>} :
          Handshake(msg, t)
    \/ SessionStart
    \/ \E reason \in {"disconnect", "error"} : ServeEnds(reason)

ServerSpec == ServerInit /\ [][ServerNext]_vars

\* ------------------------------------------------------- file uploads
\* The file sizes a client sends: a number, text that is no number, and a
\* negative number.
SizeStrings == {"5", "x", "-1"}

\* int(file_size): the number, or ValueError (the empty sequence).
ParseInt(str) ==
    CASE str = "5" -> <<5>>
      [] str = "-1" -> <<-1>>
      [] OTHER -> <<>>

\* The upload requests: the numbers of names, types and streams, and the
\* sizes.
UploadRequests ==
    [names : 1..2, types : 1..2, streams : 1..2,
     sizes : UNION {[1..n -> SizeStrings] : n \in 1..2}]

\* A lookup of the pending upload that leaves it in the registry.
GetUpload(uploads, k) == uploads

\* self._pending_file_uploads.pop(upload_token)
PopUpload(uploads, k) == [uploads EXCEPT ![k] = "taken"]

\* Session.file_chooser up to `await future`: a future is registered under a
\* fresh upload token, the client is asked to upload, and the task waits.
FileChooser(k) ==
    /\ srv.phase = "active"
    /\ srv.uploads[k] = "none"
    /\ srv' = [srv EXCEPT !.uploads[k] = "pending", !.chooser[k] = "waiting",
                          !.log = Append(@, "send")]
    /\ UNCHANGED <<heap, lists, binds, wdata, dirty, byId, pc, visited,
                   initialized, client, sent, err, nassign, last, removed,
                   matchedNew, sincePass, run>>

\* AppServer._serve_file_upload: an unknown token is a 400; the future is
\* taken out of the registry; unequal numbers of values and sizes that are
\* no numbers or negative are a 422; otherwise the future is completed with
\* one FileInfo per file and the response is 200.
ServeFileUpload(k, req) ==
    /\ IF srv.uploads[k] # "pending"
       THEN srv' = [srv EXCEPT !.response = [token |-> k, status |-> 400, req |-> req]]
       ELSE IF \/ req.names # req.types
               \/ req.names # Len(req.sizes)
               \/ req.names # req.streams
               \/ \E i \in 1..Len(req.sizes) :
                     \/ ParseInt(req.sizes[i]) = <<>>
                     \/ ParseInt(req.sizes[i])[1] < 0
       THEN srv' = [srv EXCEPT !.uploads = PopUpload(@, k),
                               !.response = [token |-> k, status |-> 422, req |-> req]]
       ELSE srv' = [srv EXCEPT !.uploads = PopUpload(@, k),
                               !.chooser[k] = "done",
                               !.files[k] = [i \in 1..req.names |->
                                   [name |-> i, media_type |-> i,
                                    size_in_bytes |-> ParseInt(req.sizes[i])[1]]],
                               !.response = [token |-> k, status |-> 200, req |-> req]]
    /\ UNCHANGED <<heap, lists, binds, wdata, dirty, byId, pc, visited,
                   initialized, client, sent, err, nassign, last, removed,
                   matchedNew, sincePass, run>>

\* The registry of pending uploads drops an entry whose lifetime is over;
\* the future expires with it.
ExpireUpload(k) ==
    /\ srv.uploads[k] = "pending"
    /\ srv' = [srv EXCEPT !.uploads[k] = "expired", !.chooser[k] = "released"]
    /\ UNCHANGED <<heap, lists, binds, wdata, dirty, byId, pc, visited,
                   initialized, client, sent, err, nassign, last, removed,
                   matchedNew, sincePass, run>>

UploadNext ==
    \/ \E k \in UploadTokens : FileChooser(k)
    \/ \E k \in UploadTokens : \E req \in UploadRequests : ServeFileUpload(k, req)
    \/ \E k \in UploadTokens : ExpireUpload(k)

UploadSpec == InitWith({<<TApp("AppBind")>>}) /\ [][UploadNext]_vars

\* ------------------------------------------------- the end of a session
\* The session with its refresh tasks while and after the socket is served.
CloseNext ==
    \/ \E reason \in {"disconnect", "error"} : ServeEnds(reason)
    \/ TaskNext

CloseSpec == InitWith(TaskRoots) /\ [][CloseNext]_vars

\* ------------------------------------------------------------ properties
\* C1: after every updateWidgetStates message, every widget id that a widget
\* state held by the client refers to as a child (child attribute, child
\* list, the build result of a placeholder) is the id of a widget whose
\* state the client has received.
C1_ReferencesReceived ==
    \A a \in DOMAIN client :
        \A i \in 1..Len(client[a]) : client[a][i] \in DOMAIN client

\* C2: after reconciliation no widget reachable from a stored build result
\* through child attributes and child lists is a newly constructed widget
\* that was matched to an old widget.
C2_NoMatchedNewReachable ==
    \A w \in 1..Len(heap) :
        wdata[w].built =>
            Range(Desc(heap, lists, wdata[w].build_result)) \cap matchedNew = {}

\* The non-child attributes of a widget, by name.
Field(node, f) ==
    CASE f = "text" -> node.text
      [] f = "title" -> node.title
      [] f = "v" -> node.v
      [] f = "sel" -> node.sel
      [] f = "margin" -> node.margin
      [] f = "margin_left" -> node.margin_left
      [] OTHER -> node.key

\* C3: when a matched pair (old, new) is merged, every attribute in new's
\* explicitly supplied set holds new's value on old, old's key is new's key,
\* and every other attribute of old keeps the value it had before the
\* rebuild.
C3_MergeTakesExplicit ==
    [][(last'.op = "build" /\ err' = "none") =>
          \A i \in 1..Len(last'.pairs) :
              LET o == last'.pairs[i][1]
                  n == last'.pairs[i][2]
                  ex == heap'[n].explicit \ {"child", "children"}
              IN o # n =>
                   /\ \A f \in ex : Field(heap'[o], f) = Field(heap'[n], f)
                   /\ heap'[o].key = heap'[n].key
                   /\ \A f \in ({"text", "title", "v", "sel", "margin", "margin_left"} \ ex) :
                         Field(heap'[o], f) = Field(heap[o], f)]_vars

\* C4: a rebuild whose output is structurally identical to the previous
\* output, with equal values everywhere, adds no widget to the dirty set.
C4_IdenticalRebuildClean ==
    (last.op = "build" /\ last.same /\ err = "none") => last.added = {}

\* The rebuild of the two-child container [A(key x), B] as [B', A'(key x)]
\* with unchanged values: the step from the state before the build.
SwapStep ==
    /\ last'.op = "build" /\ ~last'.first /\ err' = "none"
    /\ heap[last'.w].cls = "AppSwap" /\ heap[last'.w].v = 1
    /\ LET ok == Kids(heap, lists, last'.old)
       IN /\ Len(ok) = 2
          /\ heap[ok[1]].key = "x" /\ heap[ok[2]].key = NoKey
          /\ heap[ok[1]].text = Plain(1) /\ heap[ok[2]].text = Plain(2)

\* C5 as stated: A is matched to A' by key, B is matched to B', and the
\* rebuild adds no widget to the dirty set.
C5_SwapMatchesBoth ==
    [][SwapStep =>
          LET ok == Kids(heap, lists, last'.old)
          IN /\ <<ok[1], last'.new + 2>> \in Range(last'.pairs)
             /\ <<ok[2], last'.new + 1>> \in Range(last'.pairs)
             /\ last'.added = {}]_vars

\* C5 as the matching works: A is matched to A' by key; B and B' are at
\* different positions and are matched to no widget, so B' stays in the
\* tree as a new widget and is added to the dirty set, as are the container,
\* whose child list changed, and its builder.
C5_SwapMatchesKeyOnly ==
    [][SwapStep =>
          LET ok == Kids(heap, lists, last'.old)
          IN /\ <<ok[1], last'.new + 2>> \in Range(last'.pairs)
             /\ \A p \in Range(last'.pairs) :
                   p[1] # ok[2] /\ p[2] # last'.new + 1
             /\ Kids(heap', lists', last'.old) = <<last'.new + 1, ok[1]>>
             /\ last'.added = {last'.new + 1, last'.old, last'.w}]_vars

\* The swapped rebuild has happened: the container holds the new widget B'
\* followed by the old widget A.
C5_Witness ==
    /\ last.op = "build" /\ ~last.first /\ err = "none"
    /\ heap[last.w].cls = "AppSwap" /\ heap[last.w].v = 1
    /\ Len(Kids(heap, lists, last.old)) = 2
    /\ Kids(heap, lists, last.old)[1] = last.new + 1
    /\ Kids(heap, lists, last.old)[2] < last.new
    /\ heap[Kids(heap, lists, last.old)[2]].key = "x"

\* C6: when a key is carried by one widget of the old tree and one of the
\* new tree, the pair produced for them is the key pair, and no other pair
\* involves either of the two widgets.
C6_KeyMatchWins ==
    (last.op = "build" /\ err # "dupkey") =>
        \A k \in KeySet :
            (last.ok[k] # 0 /\ last.nk[k] # 0) =>
                /\ <<last.ok[k], last.nk[k]>> \in Range(last.pairs)
                /\ \A p \in Range(last.pairs) :
                      (p[1] = last.ok[k] \/ p[2] = last.nk[k]) =>
                          p = <<last.ok[k], last.nk[k]>>

\* A rebuild in which one pair matches by key and by position, and the new
\* widget of another key match sits at the position of an old widget
\* without that key.
C6_Witness ==
    /\ last.op = "build" /\ err = "none"
    /\ \E k \in KeySet :
          /\ last.ok[k] # 0 /\ last.nk[k] # 0
          /\ <<last.ok[k], last.nk[k]>> \in Range(last.topo)
    /\ \E k \in KeySet :
          /\ last.ok[k] # 0 /\ last.nk[k] # 0
          /\ \E p \in Range(last.topo) : p[2] = last.nk[k] /\ p[1] # last.ok[k]

\* Two siblings of the build output carry the same non-null key.
DuplicateSiblings ==
    \E r \in Range(Desc(heap, lists, last.new)) :
        \E i, j \in 1..Len(Kids(heap, lists, r)) :
            /\ i < j
            /\ heap[Kids(heap, lists, r)[i]].key # NoKey
            /\ heap[Kids(heap, lists, r)[i]].key = heap[Kids(heap, lists, r)[j]].key

\* C7: every build, the first as well as a rebuild, whose output contains
\* two siblings with the same non-null key fails with the duplicate-key
\* error that names both.
C7_DuplicateKeyFails ==
    (last.op = "build" /\ DuplicateSiblings) =>
        (err = "dupkey" /\ Len(last.col) = 2)

\* C8: a widget that left a composite's build output in a rebuild is in no
\* set of widgets returned by a refresh pass that ends after the rebuild.
C8_RemovedNeverSent ==
    [][(pc = "building" /\ pc' = "idle" /\ err' = "none" /\ Len(sent') > Len(sent)) =>
          sent'[Len(sent')].deltaStates \cap removed = {}]_vars

\* A pass has ended and sent a message, and it had visited a widget that is
\* no longer part of its builder's output, is still in memory and whose
\* builder is alive.
C8_Witness ==
    /\ last.op = "finish" /\ sent # <<>>
    /\ \E x \in last.visited \cap removed :
          /\ ~heap[x].freed
          /\ heap[x].builder # 0
          /\ ~heap[heap[x].builder].freed
          /\ heap[x].builder \in last.visited
          /\ IsAlive(heap, wdata, heap[x].builder)

\* C9: a refresh that follows a completed refresh with no assignment in
\* between does no work: no pass starts, no build record changes and no
\* message is sent.
C9_SecondRefreshIdle ==
    [][(sincePass = "clean" /\ pc = "idle") =>
          (pc' = "idle" /\ sent' = sent /\ wdata' = wdata)]_vars

\* C10: a widget of the live tree that an attribute was assigned on is in
\* the dirty set from the assignment on.
C10_AssignedIsDirty ==
    (last.op = "assign" /\ last.w \in InTree) => last.w \in dirty

\* C11: an attribute assignment puts the assigned widget in the dirty set in
\* every case and by itself starts no refresh: the pass state, the build
\* records and the messages sent stay as they are.
C11_AssignEnqueues ==
    [][(last'.op = "assign" /\ nassign' = nassign + 1) =>
          /\ last'.w \in dirty'
          /\ pc' = pc /\ wdata' = wdata /\ sent' = sent]_vars

\* The widgets of the live tree that hold a binding of the binding tree of
\* binding i, in the state (h, b).
BoundInTree(h, b, i) ==
    {c \in InTree : \/ h[c].text.b > 0 /\ RootOf(b, h[c].text.b) = RootOf(b, i)
                    \/ h[c].title.b > 0 /\ RootOf(b, h[c].title.b) = RootOf(b, i)}

\* C12: one write to a composite's attribute that is bound into descendant
\* attributes marks every widget of the tree that holds one of these
\* bindings dirty, and each of them reads the written value afterwards.
C12_BindingPropagation ==
    [][(/\ last'.op = "assign" /\ nassign' = nassign + 1
        /\ last'.name = "title"
        /\ last'.w \in InTree
        /\ heap[last'.w].cls \in CompositeClasses
        /\ heap[last'.w].title.b > 0) =>
          \A c \in BoundInTree(heap, binds, heap[last'.w].title.b) :
              /\ c \in dirty'
              /\ (heap[c].text.b > 0 =>
                    Attr(heap', binds', c, TEXT) = Attr(heap', binds', last'.w, TITLE))]_vars

\* C13: a write through a bound attribute of a terminal widget sets the
\* value of the root of the binding tree, so the composite that owns the
\* root reads the written value, and marks every widget that holds a binding
\* of the tree dirty.
C13_WriteThroughMember ==
    [][(/\ last'.op = "assign" /\ nassign' = nassign + 1
        /\ last'.w \in InTree
        /\ last'.name = "text"
        /\ heap[last'.w].cls = "Text"
        /\ heap[last'.w].text.b > 0) =>
          LET r == RootOf(binds, heap[last'.w].text.b)
          IN /\ binds'[r].is_root
             /\ binds'[r].value = Attr(heap', binds', last'.w, TEXT)
             /\ \A c \in BoundInTree(heap, binds, r) : c \in dirty']_vars

\* C16: rootWidgetId of an updateWidgetStates message is non-null only if
\* the identity of the session root changed in that pass; the root is set
\* once, so only the first message may carry it.
C16_RootIdOnlyOnChange ==
    \A i \in 1..Len(sent) : sent[i].rootWidgetId # 0 => i = 1

\* C18: a state update addressed to the id of a widget that was removed from
\* its builder's output is dropped: no attribute of any widget changes and
\* no widget enters the dirty set.
C18_UpdateToRemovedDropped ==
    [][(last'.op = "update" /\ nassign' = nassign + 1 /\ last'.w \in removed) =>
          (heap' = heap /\ binds' = binds /\ dirty' = dirty /\ err' = err)]_vars

\* C19: a state update or custom message whose widget id is not in the
\* identity map leaves the session as it is (widgets, bindings, dirty set,
\* build records, identity map), sends nothing, and leaves the session able
\* to handle further messages.
C19_UnknownIdDropped ==
    [][(last'.op \in {"update", "message"} /\ nassign' = nassign + 1
        /\ last'.w \notin byId) =>
          /\ heap' = heap /\ lists' = lists /\ binds' = binds
          /\ dirty' = dirty /\ wdata' = wdata /\ byId' = byId
          /\ sent' = sent /\ client' = client
          /\ err' = "none" /\ pc' = "idle"]_vars

\* A message has been dropped that was addressed to a widget the client had
\* been sent and that is gone since.
C19_Witness ==
    /\ last.op \in {"update", "message"}
    /\ last.w \notin byId
    /\ last.w \in DOMAIN client
    /\ heap[last.w].freed

\* C20: no inbound state update or custom message ends in an assertion
\* failure or an exception.
C20_InboundNeverFails ==
    last.op \in {"update", "message"} => err = "none"


\* C14: at most one task at a time is between the start of the build pass
\* and the hand-off of its delta, and the messages appear on the wire in the
\* order in which their passes completed.
C14_RefreshesSerialized ==
    /\ Cardinality({t \in Tasks : run.phase[t] # "none"}) <= 1
    /\ \A i, j \in 1..Len(run.wire) : i < j => run.wire[i] < run.wire[j]

\* A refresh is suspended on the hand-off of its delta after an earlier
\* refresh was sent, while another task has marked widgets dirty and wants
\* to refresh.
C14_Witness ==
    /\ Len(run.wire) >= 1
    /\ dirty # {}
    /\ \E t \in Tasks : run.phase[t] = "send"

\* C15: when a call to _refresh returns the session's dirty set is empty,
\* whatever other tasks assigned while the refresh was suspended.
C15_ReturnsClean ==
    [][(\E t \in Tasks : run.phase[t] # "none" /\ run'.phase[t] = "none")
         => dirty' = {}]_vars

\* C17: the first updateWidgetStates message carries a non-null rootWidgetId
\* that names a widget whose state is in the same message, whichever task
\* ran the first refresh.
C17_FirstMessageHasRoot ==
    sent # <<>> =>
        /\ sent[1].rootWidgetId # 0
        /\ sent[1].rootWidgetId \in sent[1].deltaStates

\* The first message is on the wire and the pass behind it was run by the
\* handler of an inbound message.
C17_Witness ==
    /\ sent # <<>>
    /\ run.wire[1] = 1
    /\ run.pass["handler"] = 1


\* The composites that have a build record.
Built == {w \in 1..Len(wdata) : wdata[w].built /\ ~heap[w].freed}

RECURSIVE LiveFrom(_)
\* The live widgets as a closure from the root: a widget joins when its
\* builder still exists and is in the set and the widget's generation tag
\* is the current generation of the builder's build record.
LiveFrom(S) ==
    LET T == S \cup {a \in 1..Len(heap) :
                       /\ ~heap[a].freed
                       /\ Deref(heap, heap[a].builder) \in S
                       /\ heap[a].gen = wdata[heap[a].builder].build_generation}
    IN IF T = S THEN S ELSE LiveFrom(T)

\* C30: the set a refresh pass returns is exactly the widgets popped from the
\* dirty set during the pass that are alive, and the liveness test finds the
\* build record of every builder it looks up.
C30_ResultIsLiveVisited ==
    [][pc = "building" /\ last'.op = "finish" =>
         /\ (IF Len(sent') > Len(sent) THEN sent'[Len(sent')].deltaStates ELSE {})
              = visited \cap LiveFrom({root_widget})
         /\ \A a \in visited \ {root_widget} :
               Deref(heap, heap[a].builder) # 0 => heap[a].builder \in Built]_vars

\* A pass returned a proper, non-empty subset of the widgets it visited: a
\* visited widget was dead.
C30_Witness ==
    /\ last.op = "finish"
    /\ sent # <<>>
    /\ sent[Len(sent)].deltaStates # last.visited
    /\ sent[Len(sent)].deltaStates \subseteq last.visited


\* The classes of the fundamental widgets in the i-th updateWidgetStates
\* message.
ClassesSent(i) ==
    {heap[a].cls : a \in {x \in sent[i].deltaStates : IsHtml(heap[x].cls)}}

\* C28: the client-side initialization of a fundamental widget class is sent
\* at most once per session, and before the first updateWidgetStates message
\* that contains a widget of the class.
C28_BootstrapOnceAndFirst ==
    /\ \A b1, b2 \in run.boot : b1.cls = b2.cls => b1 = b2
    /\ \A i \in 1..Len(sent) : \A c \in ClassesSent(i) :
          \E b \in run.boot : b.cls = c /\ b.at < i

\* Two messages with widgets of one class are on the wire, sent by
\* different tasks.
C28_Witness ==
    /\ Len(sent) >= 2
    /\ ClassesSent(1) \cap ClassesSent(2) # {}
    /\ run.pass["initial"] # 0 /\ run.pass["handler"] # 0


\* C21: when the event handler of a TextInput raises while an inbound
\* message is handled, the exception is swallowed: the value is assigned to
\* the widget, the widget is registered for the refresh, and the session
\* stays able to handle messages.
C21_HandlerExceptionSwallowed ==
    [][(last'.op = "input" /\ nassign' = nassign + 1 /\ last'.handler.raises) =>
         /\ err' = "none"
         /\ pc' = "idle"
         /\ Attr(heap', binds', last'.w, TEXT) = last'.val
         /\ last'.w \in dirty']_vars

\* After a handler raised, a later inbound message for a TextInput was
\* handled.
C21_Witness ==
    /\ run.raised
    /\ last.op = "input"
    /\ ~last.handler.raises
    /\ nassign = 2


\* The fields of the settings class that are settings of the session.
SchemaFields == DOMAIN srv.schema \ InternalFields

\* C22: once the UI tree of a session is built its settings are complete:
\* every schema field equals the inbound value when the key is present with
\* a value of the field's type and the server default otherwise, keys
\* outside the schema have no effect and nothing fails.
C22_SettingsFromHandshake ==
    heap # <<>> =>
        /\ DOMAIN srv.settings = SchemaFields
        /\ \A f \in SchemaFields :
              IF f \in DOMAIN srv.handshake /\ srv.handshake[f].t = srv.schema[f]
              THEN srv.settings[f] = srv.handshake[f]
              ELSE srv.settings[f] = DefaultUserSettings[f]
        /\ err = "none"

\* A session was created from a handshake with a well-typed theme, a size of
\* the wrong type and a key outside the schema, for the schema with both
\* fields.
C22_Witness ==
    /\ srv.phase = "active"
    /\ heap # <<>>
    /\ "size" \in SchemaFields
    /\ DOMAIN srv.handshake = {"theme", "size", "bogus_field"}
    /\ srv.handshake["theme"].t = "str"
    /\ srv.handshake["size"].t = "str"

Positions(e) == {i \in 1..Len(srv.log) : srv.log[i] = e}

\* C24: the end of a session is notified at most once and only after its
\* start, and exactly once after the start when serving has ended.
C24_EndNotifiedOnce ==
    /\ Cardinality(Positions("end")) <= 1
    /\ \A i \in Positions("end") : \E j \in Positions("start") : j < i
    /\ srv.phase = "closed" /\ Positions("start") # {}
          => Cardinality(Positions("end")) = 1

\* Serving ended for a reason other than a disconnect, after the start was
\* notified, and the end was notified.
C24_Witness ==
    /\ srv.phase = "closed"
    /\ srv.reason = "error"
    /\ srv.log = <<"accept", "recv", "start", "end">>


\* C25: once a session is closed and its end is notified nothing more is
\* processed for it: no inbound message is dispatched, no build function
\* runs and no message is handed to the outbound channel.
C25_NothingAfterClosed ==
    [][srv.phase = "closed" =>
         /\ sent' = sent
         /\ wdata' = wdata
         /\ nassign' = nassign \/ last'.op \notin {"update", "message", "input"}
         /\ \A t \in Tasks : run'.delta[t] = run.delta[t]]_vars

\* The requests that _serve_file_upload accepts.
Consistent(req) ==
    /\ req.names = req.types
    /\ req.names = Len(req.sizes)
    /\ req.names = req.streams
    /\ \A i \in 1..Len(req.sizes) : req.sizes[i] = "5"

\* C26: an upload request with a pending token and consistent arrays
\* completes the future of that token with one file record per file; a
\* request with a pending token and inconsistent arrays or a bad size fails
\* with a 4xx status and completes no future; a token is accepted at most
\* once, and a request with a token that is not pending fails as an invalid
\* token.
C26_UploadCompletesOnce ==
    [][srv'.response # srv.response =>
         LET k == srv'.response.token
             req == srv'.response.req
             status == srv'.response.status
         IN /\ srv'.uploads[k] # "pending"
            /\ IF srv.uploads[k] # "pending"
               THEN /\ status = 400
                    /\ srv'.chooser = srv.chooser /\ srv'.files = srv.files
               ELSE IF Consistent(req)
               THEN /\ status = 200
                    /\ srv'.chooser = [srv.chooser EXCEPT ![k] = "done"]
                    /\ Len(srv'.files[k]) = req.names
               ELSE /\ status \in 400..499
                    /\ srv'.chooser = srv.chooser /\ srv'.files = srv.files]_vars

\* A request with two files completed the future of its token, and a later
\* request with the same token was refused as an invalid token.
C26_Witness ==
    \E k \in UploadTokens :
        /\ srv.chooser[k] = "done"
        /\ Len(srv.files[k]) = 2
        /\ srv.response = [token |-> k, status |-> 400, req |-> srv.response.req]

\* C27: a task suspended in file_chooser can always still be resumed: its
\* future has been completed or released, or its token is still pending in
\* the registry, where an upload can complete it and the expiry releases it.
C27_ChooserResumes ==
    \A k \in UploadTokens :
        srv.chooser[k] = "waiting" => srv.uploads[k] = "pending"

\* ------------------------------------------------ matching and its pairs
RECURSIVE BelowMismatch(_, _, _, _)
\* The widgets of two trees that sit at or below a position at which the
\* two trees hold widgets of different types, walking both trees in step
\* from the roots o and n.
BelowMismatch(h, l, o, n) ==
    IF h[o].cls # h[n].cls
    THEN Range(Desc(h, l, o)) \cup Range(Desc(h, l, n))
    ELSE UNION {BelowMismatch(h, l, Kids(h, l, o)[i], Kids(h, l, n)[i]) :
                   i \in (1..Len(Kids(h, l, o))) \cap (1..Len(Kids(h, l, n)))}

\* C31: in a rebuild, no widget at or below a position where the types of
\* the old and the new tree differ takes part in a topological match, and a
\* pair handed to the merge that contains such a widget is a key match.
C31_MismatchEndsTopology ==
    [][(pc = "building" /\ last'.op = "build" /\ ~last'.first /\ err' # "dupkey") =>
          \A S \in {Fresh(last'.w)} :
          \A X \in {BelowMismatch(S.h, S.l, last'.old, last'.new)} :
             /\ \A p \in Range(last'.topo) : p[1] \notin X /\ p[2] \notin X
             /\ \A p \in Range(last'.pairs) :
                   (p[1] \in X \/ p[2] \in X) =>
                       /\ S.h[p[1]].key # NoKey
                       /\ S.h[p[1]].key = S.h[p[2]].key]_vars

\* A rebuild whose new root has another type than the old root, with a
\* keyed widget two levels below on both sides: the only pair is the key
\* pair of these two widgets.
C31_Witness ==
    /\ last.op = "build" /\ ~last.first /\ err = "none"
    /\ heap[last.old].cls # heap[last.new].cls
    /\ last.topo = <<>>
    /\ Len(last.pairs) = 1
    /\ \E k \in KeySet : last.pairs[1] = <<last.ok[k], last.nk[k]>>
    /\ last.pairs[1][1] # last.old

\* C32: every pair of an old and a new widget that a rebuild hands to the
\* merge consists of two widgets of the same type, so the merge raises no
\* assertion error for the types of a pair.
C32_PairsHaveSameType ==
    (last.op = "build" /\ ~last.first) =>
        \A p \in Range(last.pairs) : heap[p[1]].cls = heap[p[2]].cls

\* C33: the pairs produced for one rebuild form a one-to-one partial
\* mapping: no old widget is paired with two different new widgets and no
\* new widget with two different old widgets.
C33_PairsOneToOne ==
    (last.op = "build" /\ ~last.first) =>
        \A p, q \in Range(last.pairs) :
            /\ (p[1] = q[1]) => (p[2] = q[2])
            /\ (p[2] = q[2]) => (p[1] = q[1])

\* A rebuild with a key pair and a topological pair, in which a third
\* candidate was dropped: the new widget of the key pair sits at the
\* position of an old widget that is not its key partner.
C33_Witness ==
    /\ last.op = "build" /\ ~last.first /\ err = "none"
    /\ Len(last.pairs) >= 2
    /\ \E k \in KeySet :
          /\ <<last.ok[k], last.nk[k]>> \in Range(last.pairs)
          /\ \E t \in Range(last.topo) :
                /\ t[2] = last.nk[k] /\ t[1] # last.ok[k]
                /\ t \notin Range(last.pairs)
    /\ \E t \in Range(last.topo) : t \in Range(last.pairs)

\* ------------------------------------------------------ the binding graph
\* The session engine for applications whose fields are bound over two
\* levels: the Text of a Sub is bound to the Sub's title, which is bound to
\* the title of the application.
ChainSpec == InitWith({<<TApp("AppChain")>>}) /\ [][Next]_vars

RECURSIVE Ancestor(_, _, _)
\* The binding reached from binding i after at most n parent links.
Ancestor(b, i, n) ==
    IF n = 0 \/ b[i].parent = 0 THEN i ELSE Ancestor(b, b[i].parent, n - 1)

\* C34: every state binding is a root without parent or a non-root with a
\* parent, the parent links of every binding lead to a root without a
\* cycle, and reading a bound field never fails the parent assertion.
C34_BindingsWellFormed ==
    /\ \A i \in 1..Len(binds) :
          /\ binds[i].is_root <=> (binds[i].parent = 0)
          /\ binds[Ancestor(binds, i, Len(binds))].is_root
    /\ \A f \in (1..Len(heap)) \X {TITLE, TEXT} :
          (Raw(heap[f[1]], f[2]).b > 0) =>
              GetValue(binds, Raw(heap[f[1]], f[2]).b) # AssertFailed

\* After a rebuild, a Text whose binding was split from its parent binding
\* and is now a root: an earlier state bound it over two parent links.
C34_Witness ==
    /\ last.op = "build" /\ ~last.first /\ err = "none"
    /\ \E f \in (1..Len(heap)) \X {TITLE, TEXT} :
          /\ Raw(heap[f[1]], f[2]).b > 0
          /\ heap[f[1]].cls = "Text"
          /\ binds[Raw(heap[f[1]], f[2]).b].is_root
          /\ Attr(heap, binds, f[1], f[2]) \in Texts

\* ------------------------------------------------- the end of a pass
\* The iterations after which the build loop of one pass is cut off.
MaxIterations == 12

\* The session engine with the cut-off.
LoopNext ==
    \/ AssignAny
    \/ Inbound
    \/ RefreshStart
    \/ \E w \in dirty : Iterations < MaxIterations /\ BuildStep(w)
    \/ RefreshFinish
    \/ \E a \in Garbage : Collect(a)
LoopSpec ==
    InitWith({<<TApp("AppBind")>>, <<TApp("AppRectangle")>>}) /\ [][LoopNext]_vars

AsJson(value, type) == [t |-> type, v |-> value.v]

\* UserSettings.__setattr__ for a preference field, called by application
\* code of a connected session with a running loop: store the value, mark
\* the field dirty, and create the write-back task if there is none.
SetPreference(name, x) ==
    /\ srv.phase = "active"
    /\ nassign < MaxAssign
    /\ nassign' = nassign + 1
    /\ srv' = [srv EXCEPT !.prefs.value[name] = [t |-> PrefFields[name], v |-> x],
                          !.prefs.dirty = @ \cup {name},
                          !.prefs.unsent = @ \cup {name},
                          !.prefs.task = IF @ = "none" THEN "sleeping" ELSE @]
    /\ UNCHANGED <<heap, lists, binds, wdata, dirty, byId, pc, visited,
                   initialized, client, sent, err, last, removed,
                   matchedNew, sincePass, run>>

\* UserSettings._write_back after the sleep, up to the await inside
\* _synchronize_now: with the settings lock taken, the dirty fields are
\* collected into one message, the dirty set is cleared and the message is
\* handed to the channel; the task is suspended until the send returns.
WriteBack ==
    /\ srv.prefs.task = "sleeping"
    /\ ~srv.prefs.lock
    /\ srv' = [srv EXCEPT
            !.prefs.sent = Append(@, [f \in srv.prefs.dirty |->
                                        AsJson(srv.prefs.value[f], PrefFields[f])]),
            !.prefs.dirty = {},
            !.prefs.unsent = @ \ srv.prefs.dirty,
            !.prefs.lock = TRUE,
            !.prefs.task = "sending",
            !.log = Append(@, "send")]
    /\ UNCHANGED <<heap, lists, binds, wdata, dirty, byId, pc, visited,
                   initialized, client, sent, err, nassign, last, removed,
                   matchedNew, sincePass, run>>

\* The send returns: the lock is released and the task ends, clearing
\* _reflex_write_back_task_ in its finally block.
Synchronized ==
    /\ srv.prefs.task = "sending"
    /\ srv' = [srv EXCEPT !.prefs.lock = FALSE, !.prefs.task = "none"]
    /\ UNCHANGED <<heap, lists, binds, wdata, dirty, byId, pc, visited,
                   initialized, client, sent, err, nassign, last, removed,
                   matchedNew, sincePass, run>>

SettingsNext ==
    \/ \E name \in DOMAIN PrefFields : \E x \in 1..3 : SetPreference(name, x)
    \/ WriteBack
    \/ Synchronized

SettingsSpec == InitWith({<<TApp("AppBind")>>}) /\ [][SettingsNext]_vars

\* C36: no assignment to a preference field is left behind: whenever no
\* write-back task exists, every field assigned so far has had its latest
\* value put into a persist message.
C36_NothingLeftBehind ==
    (srv.prefs.task = "none") => (srv.prefs.unsent = {})

\* ------------------------------------------- assigning a widget to a field
\* An assignment `widget.child = Text(...)` made by application code between
\* refresh passes (StateProperty.__set__): the new widget is constructed,
\* the field takes the reference and the assigned-to widget alone is
\* registered dirty.
AssignChild(a) ==
    /\ pc = "idle" /\ err = "none"
    /\ nassign < MaxAssign
    /\ a \in Assignable
    /\ heap[a].cls = "Rectangle"
    /\ heap' = [heap EXCEPT ![a].child = Len(heap) + 1]
                   \o NewNodes(<<TText(1, NoKey)>>, Len(heap))
    /\ lists' = lists \o NewLists(<<TText(1, NoKey)>>, Len(heap))
    /\ wdata' = wdata \o <<NoData>>
    /\ dirty' = RegisterDirty(heap, lists, dirty, a, FALSE)
    /\ nassign' = nassign + 1
    /\ last' = [NoLast EXCEPT !.op = "assign", !.w = a, !.name = "child"]
    /\ sincePass' = "assigned"
    /\ UNCHANGED <<binds, byId, pc, visited, initialized, client, sent, err,
                   removed, matchedNew, run, srv>>

\* The session engine for roots that hold a widget in a field.
FieldNext ==
    \/ Next
    \/ \E a \in 1..Len(heap) : AssignChild(a)
FieldSpec ==
    InitWith({<<TRectangle(2, NoKey), TSub(0)>>, <<TApp("AppRectangle")>>})
    /\ [][FieldNext]_vars

\* C37: when an updateWidgetStates message is handed to the channel, every
\* widget reachable from the root widget over the fields that hold widgets
\* has the session injected and is registered in the map of widgets by id.
C37_ReachableInjected ==
    [][(sent' # sent) =>
          \A a \in Range(Desc(heap', lists', root_widget)) :
              heap'[a].sess /\ a \in byId']_vars

\* C38: after each build of a composite, the contained_widget_ids of its
\* build record are the ids of the widgets contained in the stored build
\* output, followed through fundamental widgets and not into the output of
\* nested composites.
C38_ContainedIdsKept ==
    (last.op = "build" /\ err = "none") =>
        wdata[last.w].contained_widget_ids =
            FundSet(heap, lists, wdata[last.w].build_result)

\* ------------------------------------------------------ widget identities
\* A counter that hands out its current value without advancing.
StuckUniqueId(counter) == counter

\* _make_unique_id: the counter is advanced and its new value returned.
MakeUniqueId(counter) == counter + 1

\* Widget._id read for the widget w, by any session of the process: the
\* stored id if vars(self) has one, otherwise a new id that is stored.
AccessId(w) ==
    /\ IF w \in DOMAIN srv.ids.of
       THEN srv' = [srv EXCEPT !.ids.ret = srv.ids.of[w], !.ids.again = TRUE]
       ELSE srv' = [srv EXCEPT !.ids.counter = MakeUniqueId(@),
                               !.ids.of = @ @@ (w :> MakeUniqueId(srv.ids.counter)),
                               !.ids.order = Append(@, w),
                               !.ids.ret = MakeUniqueId(srv.ids.counter),
                               !.ids.again = FALSE]
    /\ UNCHANGED <<heap, lists, binds, wdata, dirty, byId, pc, visited,
                   initialized, client, sent, err, nassign, last, removed,
                   matchedNew, sincePass, run>>

\* The widgets whose `_id` is read: three widgets in each of two sessions.
IdNext == \E w \in {1, 2} \X {1, 2, 3} : AccessId(w)

IdSpec == InitWith({<<TApp("AppBind")>>}) /\ [][IdNext]_vars

\* C39: a widget has an id exactly if its id was read, an id once assigned
\* never changes, two widgets never have the same id, and the ids grow
\* strictly in the order of first access, over all sessions.
C39_IdsUniqueAndIncreasing ==
    /\ [](/\ DOMAIN srv.ids.of = Range(srv.ids.order)
          /\ \A v, w \in DOMAIN srv.ids.of :
                (v # w) => (srv.ids.of[v] # srv.ids.of[w])
          /\ \A i, j \in 1..Len(srv.ids.order) :
                (i < j) => (srv.ids.of[srv.ids.order[i]] < srv.ids.of[srv.ids.order[j]]))
    /\ [][\A w \in DOMAIN srv.ids.of :
              /\ w \in DOMAIN srv'.ids.of
              /\ srv'.ids.of[w] = srv.ids.of[w]]_vars

\* Widgets of both sessions have ids, first read in alternation, and the
\* last read was of a widget that already had one and returned it.
C39_Witness ==
    /\ Len(srv.ids.order) >= 3
    /\ srv.ids.order[1][1] # srv.ids.order[2][1]
    /\ srv.ids.order[2][1] # srv.ids.order[3][1]
    /\ srv.ids.again
    /\ srv.ids.ret = srv.ids.of[srv.ids.order[1]]

====
